---- MODULE Spec2Model ----
(***************************************************************************)
(* Session management of qutebrowser (qutebrowser/misc/sessions.py):       *)
(* saving the open windows/tabs/histories to a YAML file, loading them     *)
(* back, deleting and listing sessions, and the user commands on top.      *)
(*                                                                         *)
(* Strings (session names, paths, encoded URLs) are sequences of tokens;   *)
(* "/", "~", "." and "%" are the characters the code looks at.             *)
(***************************************************************************)
EXTENDS Integers, Sequences, FiniteSets, TLC

VARIABLES windows, focused, files, lastOp, saved, nops

vars == <<windows, focused, files, lastOp, saved, nops>>

\* ------------------------------------------------------------------ bounds
\* Most history entries of a tab in an initial state.
MaxHist == 2
\* Most windows open in an initial state.
MaxInitWindows == 2
\* load is not run when it would leave more windows / tabs than this.
MaxWindows == 3
MaxTabs == 3
\* Commands run in one behaviour.
MaxOps == 2

\* ------------------------------------------------------------ os.path, URLs
HomeDir == <<"/", "h">>
DataLocation == <<"/", "d">>
YmlExt == <<".", "yml">>

isabs(p) == Len(p) > 0 /\ p[1] = "/"

join(a, b) ==
    IF isabs(b) THEN b
    ELSE IF a = <<>> \/ a[Len(a)] = "/" THEN a \o b
    ELSE a \o <<"/">> \o b

\* Only "~" and "~/..." name the current user; "~other" is left as it is.
expanduser(p) ==
    IF Len(p) = 0 \/ p[1] # "~" THEN p
    ELSE IF Len(p) = 1 THEN HomeDir
    ELSE IF p[2] = "/" THEN HomeDir \o SubSeq(p, 2, Len(p))
    ELSE p

base_path == join(DataLocation, <<"sessions">>)

\* Directories that exist throughout.
Dirs == {<<"/">>, HomeDir, DataLocation, base_path}

exists(fs, p) == p \in DOMAIN fs \/ p \in Dirs

\* Index of the last "." of a file name, 0 if there is none.
RECURSIVE rfindDot(_, _)
rfindDot(p, i) ==
    IF i = 0 THEN 0 ELSE IF p[i] = "." THEN i ELSE rfindDot(p, i - 1)

\* os.path.splitext of a file name without directory part: leading dots are
\* not an extension.
splitext(p) ==
    LET dotIndex == rfindDot(p, Len(p))
    IN  IF dotIndex > 0 /\ \E k \in 1..(dotIndex - 1) : p[k] # "."
        THEN <<SubSeq(p, 1, dotIndex - 1), SubSeq(p, dotIndex, Len(p))>>
        ELSE <<p, <<>> >>

\* A QUrl is a sequence of characters, "U" a non-ASCII one; toEncoded
\* percent-encodes it and fromEncoded reads the escape back.
RECURSIVE toEncoded(_)
toEncoded(url) ==
    IF url = <<>> THEN <<>>
    ELSE (IF Head(url) = "U" THEN <<"%", "E2">> ELSE <<Head(url)>>)
         \o toEncoded(Tail(url))

RECURSIVE fromEncoded(_)
fromEncoded(s) ==
    IF s = <<>> THEN <<>>
    ELSE IF Head(s) = "%" /\ Len(s) >= 2 /\ s[2] = "E2"
         THEN <<"U">> \o fromEncoded(SubSeq(s, 3, Len(s)))
         ELSE <<Head(s)>> \o fromEncoded(Tail(s))

\* --------------------------------------------------------- path resolution
\* _get_session_path: [exc, path].
get_session_path(fs, name, check_exists) ==
    LET path == expanduser(name)
        inner == join(base_path, name \o YmlExt)
    IN  IF isabs(path) /\ ((~check_exists) \/ exists(fs, path))
        THEN [exc |-> "none", path |-> path]
        ELSE IF check_exists /\ ~exists(fs, inner)
             THEN [exc |-> "SessionNotFoundError", path |-> inner]
             ELSE [exc |-> "none", path |-> inner]

\* ------------------------------------------------------------- live state
\* userData() of a history item: None, or a dict of which the code reads the
\* keys 'zoom' and 'scroll-pos' (a QPoint).
NoUserData == [some |-> FALSE, keys |-> {}, zoom |-> 0, x |-> 0, y |-> 0]
AuxKeys == {"zoom", "scroll-pos"}

\* ------------------------------------------------------------------- save
\* qtutils.ensure_valid(item): raises QtValueError for an invalid item.
ensure_valid(item) == IF item.valid THEN "none" ELSE "QtValueError"

EmptyTabData == [history |-> <<>>, keys |-> {}, zoom |-> 0, x |-> 0, y |-> 0]

\* One iteration of the loop over history.items(), lines 96-113, without
\* the append of line 114: [exc, tab_data].
SaveItem(tab, i, tab_data) ==
    LET item == tab.items[i]
        user_data == item.user_data
        active == (tab.cur = i - 1)
        item_data == [url |-> toEncoded(item.url), title |-> item.title,
                      active |-> active]
        live == IF active /\ ~user_data.some
                THEN [tab_data EXCEPT !.keys = AuxKeys, !.zoom = tab.zoom,
                                      !.x = tab.x, !.y = tab.y]
                ELSE tab_data
        appended == [live EXCEPT !.history = Append(@, item_data)]
    IN  IF ensure_valid(item) # "none"
        THEN [exc |-> ensure_valid(item), tab_data |-> tab_data]
        ELSE IF ~user_data.some
        THEN [exc |-> "none", tab_data |-> appended]
        ELSE IF ~(AuxKeys \subseteq user_data.keys)
        THEN [exc |-> "KeyError", tab_data |-> appended]
        ELSE [exc |-> "none",
              tab_data |-> [appended EXCEPT !.keys = AuxKeys,
                                            !.zoom = user_data.zoom,
                                            !.x = user_data.x,
                                            !.y = user_data.y]]

\* The loop over history.items() from item i on: [exc, tab_data, n], n the
\* number of times line 114 ran. SaveItemsNext: after the iteration on item
\* i gave r, the exception propagates or the loop goes on.
RECURSIVE SaveItems(_, _, _, _)
SaveItemsNext(tab, i, n, r) ==
    IF r.exc # "none"
    THEN [exc |-> r.exc, tab_data |-> r.tab_data, n |-> n]
    ELSE SaveItems(tab, i + 1, r.tab_data, n + 1)

SaveItems(tab, i, tab_data, n) ==
    IF i > Len(tab.items) THEN [exc |-> "none", tab_data |-> tab_data, n |-> n]
    ELSE SaveItemsNext(tab, i, n, SaveItem(tab, i, tab_data))

\* Body of the loop over tabbed_browser.widgets(), lines 93-114, from tab t
\* on: [exc, tabs]. Line 114 is inside the loop over the items: it appends
\* the one tab_data object once per history item, so the list ends up with
\* as many references to the finished tab_data as the tab has items (r.n).
RECURSIVE SaveTabs(_, _, _)
SaveTabsNext(win, t, tabs, r) ==
    IF r.exc # "none" THEN [exc |-> r.exc, tabs |-> tabs]
    ELSE SaveTabs(win, t + 1, tabs \o [k \in 1..r.n |-> r.tab_data])

SaveTabs(win, t, tabs) ==
    IF t > Len(win.tabs) THEN [exc |-> "none", tabs |-> tabs]
    ELSE SaveTabsNext(win, t, tabs, SaveItems(win.tabs[t], 1, EmptyTabData, 0))

\* The loop over objreg.window_registry, lines 86-115: [exc, windows].
RECURSIVE SaveWindows(_, _, _)
SaveWindowsNext(live, w, acc, r) ==
    IF r.exc # "none" THEN [exc |-> r.exc, windows |-> acc]
    ELSE SaveWindows(live, w + 1,
                     Append(acc, [tabs |-> r.tabs,
                                  geometry |-> live[w].geometry]))

SaveWindows(live, w, acc) ==
    IF w > Len(live) THEN [exc |-> "none", windows |-> acc]
    ELSE SaveWindowsNext(live, w, acc, SaveTabs(live[w], 1, <<>>))

\* What yaml.dump writes for data and yaml.load reads back.
YamlDoc(data_windows) == [kind |-> "windows", windows |-> data_windows]

TmpExt == <<".", "tmp">>

\* qtutils.savefile_open + yaml.dump: the document goes to a temporary file
\* that is renamed over path on success. io is what the environment does:
\* "ok", "error" (OSError, UnicodeEncodeError or YAMLError), "terminated"
\* (the process dies after the temporary file is written, before the rename).
savefile_open(fs, path, content, io) ==
    IF path \in Dirs THEN [exc |-> "OSError", files |-> fs]
    ELSE IF io = "error" THEN [exc |-> "OSError", files |-> fs]
    ELSE IF io = "terminated"
    THEN [exc |-> "terminated", files |-> ((path \o TmpExt) :> content) @@ fs]
    ELSE [exc |-> "none", files |-> (path :> content) @@ fs]

\* SaveWritten emitting the signal in a finally instead of the else branch.
SaveWritten_EmitAlways(fs, path, w) ==
    IF w.exc = "OSError"
    THEN [raised |-> "SessionError", files |-> fs, emitted |-> TRUE,
          path |-> path]
    ELSE IF w.exc = "terminated"
    THEN [raised |-> "terminated", files |-> w.files, emitted |-> FALSE,
          path |-> path]
    ELSE [raised |-> "none", files |-> w.files, emitted |-> TRUE,
          path |-> path]

\* Lines 116-122, w what writing the file did: the caught errors become
\* SessionError, and the signal is emitted in the else branch only.
SaveWritten(fs, path, w) ==
    IF w.exc = "OSError"
    THEN [raised |-> "SessionError", files |-> fs, emitted |-> FALSE,
          path |-> path]
    ELSE IF w.exc = "terminated"
    THEN [raised |-> "terminated", files |-> w.files, emitted |-> FALSE,
          path |-> path]
    ELSE [raised |-> "none", files |-> w.files, emitted |-> TRUE,
          path |-> path]

\* Lines 85-122, data what the loops of lines 86-115 gave: an exception
\* raised there leaves save before the file is opened.
SaveData(fs, path, io, data) ==
    IF data.exc # "none"
    THEN [raised |-> data.exc, files |-> fs, emitted |-> FALSE, path |-> path]
    ELSE SaveWritten(fs, path,
                     savefile_open(fs, path, YamlDoc(data.windows), io))

\* save(name): [raised, files, emitted, path].
save(name, live, fs, io) ==
    SaveData(fs, get_session_path(fs, name, FALSE).path, io,
             SaveWindows(live, 1, <<>>))

\* ------------------------------------------------------------------- load
\* tabhistory.TabHistoryItem(url, title, active, user_data).
TabHistoryItem(url, title, active, user_data) ==
    [url |-> url, title |-> title, active |-> active, user_data |-> user_data]

\* Lines 152-162: the entry built for one stored history entry of a tab.
\* user_data is a dict, never None, filled from the TAB's fields whether or
\* not the entry is the active one.
LoadEntry(tab, histentry) ==
    LET user_data ==
            [some |-> TRUE,
             keys |-> tab.keys \cap AuxKeys,
             zoom |-> IF "zoom" \in tab.keys THEN tab.zoom ELSE 0,
             x |-> IF "scroll-pos" \in tab.keys THEN tab.x ELSE 0,
             y |-> IF "scroll-pos" \in tab.keys THEN tab.y ELSE 0]
        active == histentry.active
    IN  TabHistoryItem(fromEncoded(histentry.url), histentry.title, active,
                       user_data)

LoadEntries(tab) == [i \in 1..Len(tab.history) |-> LoadEntry(tab, tab.history[i])]

\* tabhistory.serialize(entries): ValueError unless the list is empty or has
\* exactly one active entry; otherwise the index of the current item.
serialize(entries) ==
    LET act == {i \in 1..Len(entries) : entries[i].active}
    IN  IF Len(entries) = 0 THEN [exc |-> "none", cur |-> 0]
        ELSE IF Cardinality(act) # 1 THEN [exc |-> "ValueError", cur |-> 0]
        ELSE [exc |-> "none", cur |-> (CHOOSE i \in act : TRUE) - 1]

\* tabbed_browser.tabopen(): a new empty tab, with the default view state.
DefaultZoom == 1
NewTab == [items |-> <<>>, cur |-> 0, zoom |-> DefaultZoom, x |-> 0, y |-> 0]

\* page.load_history(entries) on a tab: [exc, tab].
load_history(new_tab, entries) ==
    LET s == serialize(entries)
    IN  IF s.exc # "none" THEN [exc |-> s.exc, tab |-> new_tab]
        ELSE [exc |-> "none",
              tab |-> [new_tab EXCEPT
                         !.items = [i \in 1..Len(entries) |->
                                      [url |-> entries[i].url,
                                       title |-> entries[i].title,
                                       valid |-> TRUE,
                                       user_data |-> entries[i].user_data]],
                         !.cur = s.cur]]

\* MainWindow.spawn(geometry): a new window without tabs, which gets the
\* focus; its win_id is its position.
spawn(live, geometry) == Append(live, [geometry |-> geometry, tabs |-> <<>>])

\* Lines 148-166 from tab t of win on, into window win_id: [exc, live].
\* LoadTabsNext: r is what load_history did on the tab just opened (the
\* last one of window win_id in opened); lines 163-166 turn its ValueError
\* into SessionError.
RECURSIVE LoadTabs(_, _, _, _)
\* LoadTabsNext without the try/except of lines 163-166.
LoadTabsNext_NoExcept(win, t, opened, win_id, r) ==
    IF r.exc = "ValueError"
    THEN [exc |-> "ValueError", live |-> opened]
    ELSE LoadTabs(win, t + 1,
                  [opened EXCEPT ![win_id].tabs[Len(opened[win_id].tabs)] =
                                   r.tab],
                  win_id)

LoadTabsNext(win, t, opened, win_id, r) ==
    IF r.exc = "ValueError"
    THEN [exc |-> "SessionError", live |-> opened]
    ELSE LoadTabs(win, t + 1,
                  [opened EXCEPT ![win_id].tabs[Len(opened[win_id].tabs)] =
                                   r.tab],
                  win_id)

LoadTabs(win, t, live, win_id) ==
    IF t > Len(win.tabs) THEN [exc |-> "none", live |-> live]
    ELSE LoadTabsNext(win, t,
                      [live EXCEPT ![win_id].tabs = Append(@, NewTab)],
                      win_id,
                      load_history(NewTab, LoadEntries(win.tabs[t])))

\* LoadTarget spawning a window for every window of the document.
LoadTarget_AlwaysSpawn(k, live, foc, geometry) ==
    [live |-> spawn(live, geometry), win_id |-> Len(live) + 1,
     focused |-> Len(live) + 1]

\* Window chosen for the k-th window of the document, lines 137-144: the
\* last-focused window for the first one if there is a window, a new one
\* otherwise. [live, win_id, focused].
LoadTarget(k, live, foc, geometry) ==
    IF k = 1 /\ Len(live) > 0
    THEN [live |-> live, win_id |-> foc, focused |-> foc]
    ELSE [live |-> spawn(live, geometry), win_id |-> Len(live) + 1,
          focused |-> Len(live) + 1]

\* The loop over data['windows'], lines 136-166: [exc, live, focused].
RECURSIVE LoadWindows(_, _, _, _)
LoadWindowsNext(doc_windows, k, foc, r) ==
    IF r.exc # "none"
    THEN [exc |-> r.exc, live |-> r.live, focused |-> foc]
    ELSE LoadWindows(doc_windows, k + 1, r.live, foc)

LoadWindow(doc_windows, k, tgt) ==
    LoadWindowsNext(doc_windows, k, tgt.focused,
                    LoadTabs(doc_windows[k], 1, tgt.live, tgt.win_id))

LoadWindows(doc_windows, k, live, foc) ==
    IF k > Len(doc_windows)
    THEN [exc |-> "none", live |-> live, focused |-> foc]
    ELSE LoadWindow(doc_windows, k,
                    LoadTarget(k, live, foc, doc_windows[k].geometry))

\* open(path) + yaml.load, lines 129-133: [exc, kind, windows]. A file that
\* is no YAML (or a directory) gives SessionError; kind "nowindows" is a
\* YAML mapping without the key 'windows'.
ReadYaml(fs, path) ==
    IF path \in Dirs \/ fs[path].kind = "garbage"
    THEN [exc |-> "SessionError", kind |-> "none", windows |-> <<>>]
    ELSE [exc |-> "none", kind |-> fs[path].kind, windows |-> fs[path].windows]

LoadResult(path, r) ==
    [raised |-> r.exc, live |-> r.live, focused |-> r.focused, path |-> path]

\* Lines 129-166, data what reading the file gave.
LoadData(live, foc, path, data) ==
    IF data.exc # "none"
    THEN [raised |-> data.exc, live |-> live, focused |-> foc, path |-> path]
    ELSE IF data.kind # "windows"
    THEN [raised |-> "KeyError", live |-> live, focused |-> foc,
          path |-> path]
    ELSE LoadResult(path, LoadWindows(data.windows, 1, live, foc))

\* Lines 128-166, p what _get_session_path(name, check_exists=True) gave.
LoadPath(live, foc, fs, p) ==
    IF p.exc # "none"
    THEN [raised |-> p.exc, live |-> live, focused |-> foc, path |-> <<>>]
    ELSE LoadData(live, foc, p.path, ReadYaml(fs, p.path))

\* load(name): [raised, live, focused, path].
load(name, live, foc, fs) ==
    LoadPath(live, foc, fs, get_session_path(fs, name, TRUE))

\* ----------------------------------------------------------- delete, list
\* Lines 171-173, p what _get_session_path(name, check_exists=True) gave;
\* io "error": os.remove fails.
DeletePath(fs, io, p) ==
    IF p.exc # "none"
    THEN [raised |-> p.exc, files |-> fs, emitted |-> FALSE, path |-> <<>>]
    ELSE IF io = "error" \/ p.path \in Dirs
    THEN [raised |-> "OSError", files |-> fs, emitted |-> FALSE,
          path |-> p.path]
    ELSE [raised |-> "none",
          files |-> [q \in DOMAIN fs \ {p.path} |-> fs[q]],
          emitted |-> TRUE, path |-> p.path]

\* delete(name): [raised, files, emitted, path].
delete(name, fs, io) == DeletePath(fs, io, get_session_path(fs, name, TRUE))

\* os.listdir(base_path): the names of the files directly in it.
listdir(fs) ==
    LET prefix == base_path \o <<"/">>
        n == Len(prefix)
    IN  {SubSeq(q, n + 1, Len(q)) :
           q \in {q \in DOMAIN fs :
                    /\ Len(q) > n
                    /\ SubSeq(q, 1, n) = prefix
                    /\ \A k \in (n + 1)..Len(q) : q[k] # "/"}}

list_sessions(fs) ==
    {splitext(filename)[1] :
       filename \in {f \in listdir(fs) : splitext(f)[2] = YmlExt}}

\* ---------------------------------------------------------------- commands
\* Exception leaving session_load (lines 195-200).
session_load_exc(raised) ==
    IF raised \in {"SessionNotFoundError", "SessionError"} THEN "CommandError"
    ELSE raised

\* Exception leaving session_save (lines 211-214). SessionNotFoundError is
\* a SessionError.
session_save_exc(raised) ==
    IF raised \in {"SessionNotFoundError", "SessionError"} THEN "CommandError"
    ELSE raised

\* Exception leaving session_delete (lines 235-238).
session_delete_exc(raised) ==
    IF raised = "OSError" THEN "CommandError" ELSE raised

\* ----------------------------------------------------------- initial state
Url1 == <<"a">>
Url2 == <<"a", "U">>

\* History items a page can hold: a plain one, one with user data from an
\* earlier load, and an invalid (cleared) one.
LiveItems ==
    { [url |-> Url1, title |-> "t1", valid |-> TRUE, user_data |-> NoUserData],
      [url |-> Url2, title |-> "t2", valid |-> TRUE,
       user_data |-> [some |-> TRUE, keys |-> AuxKeys, zoom |-> 2,
                      x |-> 3, y |-> 4]],
      [url |-> Url1, title |-> "", valid |-> FALSE, user_data |-> NoUserData] }

Histories == UNION {[1..n -> LiveItems] : n \in 0..MaxHist}

\* currentItemIndex() is 0 for an empty history, else the index of an item.
LiveTabs ==
    {t \in [items : Histories, cur : 0..MaxHist, zoom : {DefaultZoom},
            x : {0}, y : {0}] :
       IF t.items = <<>> THEN t.cur = 0 ELSE t.cur < Len(t.items)}

\* The open windows of an initial state: window i has geometry i and one
\* tab, and the tabs show the same history.
InitLive ==
    UNION {{[i \in 1..n |-> [geometry |-> i, tabs |-> <<tab>>]] :
              tab \in LiveTabs} :
           n \in 0..MaxInitWindows}

\* Stored entries and tabs of the session files present at the start.
EntryPlain == [url |-> <<"a">>, title |-> "t1", active |-> FALSE]
EntryPlainActive == [url |-> <<"a">>, title |-> "t1", active |-> TRUE]
EntryUtfActive == [url |-> <<"a", "%", "E2">>, title |-> "t2", active |-> TRUE]

TabZoom == [history |-> <<EntryPlain, EntryUtfActive>>, keys |-> AuxKeys,
            zoom |-> 3, x |-> 5, y |-> 6]
TabPlain == [history |-> <<EntryPlainActive>>, keys |-> {}, zoom |-> 0,
             x |-> 0, y |-> 0]
TabEmpty == [history |-> <<>>, keys |-> {}, zoom |-> 0, x |-> 0, y |-> 0]
TabNoActive == [history |-> <<EntryPlain, EntryPlain>>, keys |-> {},
                zoom |-> 0, x |-> 0, y |-> 0]
TabTwoActive == [history |-> <<EntryPlainActive, EntryUtfActive>>,
                 keys |-> AuxKeys, zoom |-> 3, x |-> 5, y |-> 6]

DocA == YamlDoc(<<[tabs |-> <<TabZoom, TabEmpty>>, geometry |-> 7],
                  [tabs |-> <<TabPlain>>, geometry |-> 8]>>)
DocB == YamlDoc(<<[tabs |-> <<TabTwoActive>>, geometry |-> 8]>>)
DocX == YamlDoc(<<[tabs |-> <<TabPlain, TabNoActive>>, geometry |-> 7]>>)
DocNoWindows == [kind |-> "nowindows", windows |-> <<>>]
DocGarbage == [kind |-> "garbage", windows |-> <<>>]

InitFiles ==
    (join(base_path, <<"a">> \o YmlExt) :> DocA) @@
    (join(base_path, <<"b">> \o YmlExt) :> DocB) @@
    (join(base_path, <<"c", ".", "txt">>) :> DocGarbage) @@
    (<<"/", "x">> \o YmlExt :> DocX) @@
    (join(HomeDir, <<"s">>) :> DocNoWindows)

\* Session names given to the commands.
Names == {<<"a">>, <<"b">>, <<>>, <<"/", "x">>, <<"~", "/", "s">>}

\* History variable: the session name, the path and the open windows of the
\* last save that completed, until that file is deleted.
NotSaved == [has |-> FALSE, name |-> <<>>, path |-> <<>>, live |-> <<>>]

NoOp == [op |-> "init", name |-> <<>>, raised |-> "none", escaped |-> "none",
         emitted |-> FALSE, path |-> <<>>, listing |-> {}, before |-> 0]

Init ==
    /\ windows \in InitLive
    /\ focused \in (IF windows = <<>> THEN {0} ELSE 1..Len(windows))
    /\ files = InitFiles
    /\ lastOp = NoOp
    /\ saved = NotSaved
    /\ nops = 0

\* ----------------------------------------------------------------- actions
Record(op, name, r, escaped) ==
    [op |-> op, name |-> name, raised |-> r.raised, escaped |-> escaped,
     emitted |-> r.emitted, path |-> r.path, listing |-> {},
     before |-> Len(windows)]

Snapshot(name, r) ==
    IF r.raised = "none"
    THEN [has |-> TRUE, name |-> name, path |-> r.path, live |-> windows]
    ELSE saved

\* :session-save name -- r is what save(name) did.
SessionSaveDone(name, r) ==
    /\ nops < MaxOps
    /\ files' = r.files
    /\ windows' = IF r.raised = "terminated" THEN <<>> ELSE windows
    /\ focused' = IF r.raised = "terminated" THEN 0 ELSE focused
    /\ lastOp' = Record("session_save", name, r, session_save_exc(r.raised))
    /\ saved' = Snapshot(name, r)
    /\ nops' = nops + 1

SessionSave(name, io) == SessionSaveDone(name, save(name, windows, files, io))

\* :wq name -- session_save, then QApplication.closeAllWindows() unless
\* session_save raised.
SaveAndQuitDone(name, r) ==
    /\ nops < MaxOps
    /\ files' = r.files
    /\ windows' = IF r.raised = "none" THEN <<>> ELSE windows
    /\ focused' = IF r.raised = "none" THEN 0 ELSE focused
    /\ lastOp' = Record("save_and_quit", name, r, session_save_exc(r.raised))
    /\ saved' = Snapshot(name, r)
    /\ nops' = nops + 1

SaveAndQuit(name, io) == SaveAndQuitDone(name, save(name, windows, files, io))

\* :session-load name -- r is what load(name) did.
SessionLoadDone(name, r) ==
    /\ nops < MaxOps
    /\ Len(r.live) <= MaxWindows
    /\ \A i \in 1..Len(r.live) : Len(r.live[i].tabs) <= MaxTabs
    /\ windows' = r.live
    /\ focused' = r.focused
    /\ lastOp' = Record("session_load", name,
                        [raised |-> r.raised, emitted |-> FALSE,
                         path |-> r.path],
                        session_load_exc(r.raised))
    /\ nops' = nops + 1
    /\ UNCHANGED <<files, saved>>

SessionLoad(name) == SessionLoadDone(name, load(name, windows, focused, files))

\* :session-delete name -- r is what delete(name) did.
SessionDeleteDone(name, r) ==
    /\ nops < MaxOps
    /\ files' = r.files
    /\ lastOp' = Record("session_delete", name, r, session_delete_exc(r.raised))
    /\ saved' = IF r.raised = "none" /\ r.path = saved.path
                THEN NotSaved ELSE saved
    /\ nops' = nops + 1
    /\ UNCHANGED <<windows, focused>>

SessionDelete(name, io) == SessionDeleteDone(name, delete(name, files, io))

\* The session completion asks for list_sessions().
ListSessions ==
    /\ nops < MaxOps
    /\ lastOp' = [NoOp EXCEPT !.op = "list_sessions",
                              !.listing = list_sessions(files),
                              !.before = Len(windows)]
    /\ nops' = nops + 1
    /\ UNCHANGED <<windows, focused, files, saved>>

Next ==
    \/ \E name \in Names, io \in {"ok", "error", "terminated"} :
         SessionSave(name, io)
    \/ \E name \in Names, io \in {"ok", "error"} : SaveAndQuit(name, io)
    \/ \E name \in Names : SessionLoad(name)
    \/ \E name \in Names, io \in {"ok", "error"} : SessionDelete(name, io)
    \/ ListSessions

Spec == Init /\ [][Next]_vars

\* ------------------------------------------------------------------ claims
Saves == {"session_save", "save_and_quit"}
Commands == Saves \cup {"session_load", "session_delete"}

FileAt(fs, p) == IF p \in DOMAIN fs THEN <<fs[p]>> ELSE <<>>

\* The history of a live tab as a stored tab should hold it.
SameHistory(tab, stored) ==
    /\ Len(stored.history) = Len(tab.items)
    /\ \A i \in 1..Len(tab.items) :
         /\ stored.history[i].url = toEncoded(tab.items[i].url)
         /\ stored.history[i].title = tab.items[i].title
         /\ stored.history[i].active = (tab.cur = i - 1)

\* Two live states with the same windows, tabs, URLs, titles and positions.
SameSession(a, b) ==
    /\ Len(a) = Len(b)
    /\ \A w \in 1..Len(a) :
         /\ Len(a[w].tabs) = Len(b[w].tabs)
         /\ \A t \in 1..Len(a[w].tabs) :
              LET x == a[w].tabs[t]
                  y == b[w].tabs[t]
              IN  /\ Len(x.items) = Len(y.items)
                  /\ x.cur = y.cur
                  /\ \A i \in 1..Len(x.items) :
                       /\ x.items[i].url = y.items[i].url
                       /\ x.items[i].title = y.items[i].title

\* C1: a session saved under a name and then loaded under that name into an
\* application without open windows comes back with the same windows, the
\* same tabs in each, and the same URLs, titles and current position in
\* each tab.
C1_RoundTrip ==
    (/\ lastOp.op = "session_load"
     /\ lastOp.before = 0
     /\ saved.has
     /\ saved.name = lastOp.name)
    => (lastOp.raised = "none" /\ SameSession(saved.live, windows))

\* C2: the 'tabs' sequence save() writes for a window has one element per
\* open tab of that window, the i-th holding the history of the i-th tab
\* (no element for a window without tabs, an element with an empty history
\* for a tab without history).
C2_TabsPositional ==
    (lastOp.op \in Saves /\ lastOp.raised = "none")
    => LET doc == files[lastOp.path].windows
           live == saved.live
       IN  /\ Len(doc) = Len(live)
           /\ \A w \in 1..Len(live) :
                /\ Len(doc[w].tabs) = Len(live[w].tabs)
                /\ \A t \in 1..Len(live[w].tabs) :
                     SameHistory(live[w].tabs[t], doc[w].tabs[t])

\* The tab-level values the active entry of a live tab stands for: its own
\* user data if it has any, else the view's zoom and scroll position.
ActiveAux(tab) ==
    LET ud == tab.items[tab.cur + 1].user_data
    IN  IF ud.some THEN <<ud.zoom, ud.x, ud.y>>
        ELSE <<tab.zoom, tab.x, tab.y>>

\* C3: the zoom and scroll position save() writes for a tab are those of the
\* tab's active history entry (its user data, else the live view's values),
\* never those of another entry: every stored tab with these fields holds
\* the history of an open tab of its window and that tab's active values.
C3_AuxFromActive ==
    (lastOp.op \in Saves /\ lastOp.raised = "none")
    => LET doc == files[lastOp.path].windows
           live == saved.live
       IN  \A w \in 1..Len(doc) : \A d \in 1..Len(doc[w].tabs) :
             LET stored == doc[w].tabs[d]
             IN  stored.keys # {} =>
                   \E t \in 1..Len(live[w].tabs) :
                     /\ live[w].tabs[t].items # <<>>
                     /\ SameHistory(live[w].tabs[t], stored)
                     /\ <<stored.zoom, stored.x, stored.y>> =
                          ActiveAux(live[w].tabs[t])

\* A document has a stored tab whose history cannot be restored: entries,
\* but not exactly one of them active.
HasBadTab(doc) ==
    \E w \in 1..Len(doc) : \E t \in 1..Len(doc[w].tabs) :
      /\ doc[w].tabs[t].history # <<>>
      /\ Cardinality({i \in 1..Len(doc[w].tabs[t].history) :
                        doc[w].tabs[t].history[i].active}) # 1

\* C4: loading a document succeeds only if every stored history with
\* entries has exactly one active entry, and then the restored history has
\* the stored entries and its current index is that entry's position (0 and
\* no entries for an empty history); with no active entry or several the
\* load fails with SessionError, shown to the user as CommandError.
C4_SingleActive ==
    (/\ lastOp.op = "session_load"
     /\ lastOp.path \in DOMAIN files
     /\ files[lastOp.path].kind = "windows")
    => LET doc == files[lastOp.path].windows
       IN  IF HasBadTab(doc)
           THEN lastOp.raised = "SessionError" /\ lastOp.escaped = "CommandError"
           ELSE /\ lastOp.raised = "none"
                /\ lastOp.before = 0 =>
                     /\ Len(windows) = Len(doc)
                     /\ \A w \in 1..Len(doc) :
                          /\ Len(windows[w].tabs) = Len(doc[w].tabs)
                          /\ \A t \in 1..Len(doc[w].tabs) :
                               LET tab == windows[w].tabs[t]
                                   h == doc[w].tabs[t].history
                               IN  /\ Len(tab.items) = Len(h)
                                   /\ IF h = <<>> THEN tab.cur = 0
                                      ELSE /\ tab.cur < Len(h)
                                           /\ h[tab.cur + 1].active

\* C4 happens: a document with a tab that has two active entries was
\* loaded and the load failed with SessionError.
C4_Witness ==
    /\ lastOp.op = "session_load"
    /\ lastOp.path \in DOMAIN files
    /\ files[lastOp.path] = DocB
    /\ lastOp.raised = "SessionError"

\* C5: a user command either completes or raises CommandError; no other
\* exception leaves session_load, session_save, save_and_quit or
\* session_delete.
C5_OnlyCommandError ==
    (lastOp.op \in Commands /\ lastOp.raised # "terminated")
    => lastOp.escaped \in {"none", "CommandError"}

\* C6: the path a name resolves to is the home-expanded name itself if that
\* is absolute and (existence is not checked or it exists); otherwise it is
\* <session directory>/<name>.yml, inside the session directory, or
\* SessionNotFoundError if existence is checked and that file is absent.
\* (save resolves without the existence check, load with it.)
C6_PathResolution ==
    (lastOp.op \in Saves \cup {"session_load"})
    => LET check == lastOp.op = "session_load"
           expanded == expanduser(lastOp.name)
           inside == base_path \o <<"/">> \o lastOp.name \o YmlExt
       IN  IF isabs(expanded) /\ (~check \/ exists(files, expanded))
           THEN lastOp.raised # "SessionNotFoundError"
                /\ lastOp.path = expanded
           ELSE IF check /\ ~exists(files, inside)
           THEN lastOp.raised = "SessionNotFoundError"
           ELSE lastOp.raised # "SessionNotFoundError"
                /\ lastOp.path = inside

\* C7: load() attaches the tab's zoom and scroll position to the entry
\* stored as active only (and only if the tab has them); every other entry
\* is rebuilt without them.
C7_AuxOnlyOnActive ==
    (/\ lastOp.op = "session_load"
     /\ lastOp.raised = "none"
     /\ lastOp.before = 0)
    => LET doc == files[lastOp.path].windows
       IN  \A w \in 1..Len(windows) : \A t \in 1..Len(windows[w].tabs) :
             LET tab == windows[w].tabs[t]
             IN  \A i \in 1..Len(tab.items) :
                   tab.items[i].user_data.keys =
                     (IF tab.cur = i - 1 THEN doc[w].tabs[t].keys ELSE {})

\* C8: a save that fails (an invalid history entry, an error while writing,
\* the process ending before the rename) leaves the session file of that
\* name as it was, present or absent, and emits no update signal; the file
\* changes, and the signal is emitted, only when save completes.
C8_SaveAtomic ==
    [][(lastOp'.op \in Saves /\ lastOp'.raised # "none")
       => (/\ FileAt(files', lastOp'.path) = FileAt(files, lastOp'.path)
           /\ ~lastOp'.emitted)]_vars

\* C8 happens: a save of a name that has a session file was cut short after
\* the temporary file was written.
C8_Witness ==
    /\ lastOp.op = "session_save"
    /\ lastOp.raised = "terminated"
    /\ lastOp.name = <<"a">>
    /\ lastOp.path \in DOMAIN files
    /\ (lastOp.path \o TmpExt) \in DOMAIN files

\* The names whose <name>.yml is a file of the session directory.
YmlNames(fs) ==
    {SubSeq(f, 1, Len(f) - Len(YmlExt)) :
       f \in {f \in listdir(fs) :
                /\ Len(f) >= Len(YmlExt)
                /\ SubSeq(f, Len(f) - Len(YmlExt) + 1, Len(f)) = YmlExt}}

\* C9: list_sessions() returns exactly the names whose <name>.yml file is
\* in the session directory, and load of a bare name raises
\* SessionNotFoundError exactly if the name is not listed.
C9_Listing ==
    /\ lastOp.op = "list_sessions" => lastOp.listing = YmlNames(files)
    /\ (lastOp.op = "session_load" /\ \A k \in 1..Len(lastOp.name) :
                                        lastOp.name[k] \notin {"/", "~"})
       => (lastOp.raised = "SessionNotFoundError"
             <=> lastOp.name \notin list_sessions(files))

\* C10 as stated: a completed load of a document with k windows leaves
\* exactly k more windows than before.
C10_AlwaysSpawn ==
    (lastOp.op = "session_load" /\ lastOp.raised = "none")
    => Len(windows) = lastOp.before + Len(files[lastOp.path].windows)

\* C10 amended: a completed load puts the first window of the document into
\* the last-focused window if a window is open (that window keeps its
\* geometry and gets the stored tabs in addition to its own) and spawns a
\* window with the stored geometry for every other window of the document,
\* in document order; with no window open it spawns one for the first too.
\* Every other window that was open keeps its tabs and geometry.
C10_ReuseFocused ==
    [][(lastOp'.op = "session_load" /\ lastOp'.raised = "none")
       => LET doc == files[lastOp'.path].windows
              k == Len(doc)
              n == Len(windows)
              first == IF n = 0 THEN 1 ELSE 2
              at(j) == IF n = 0 THEN j ELSE n + j - 1
          IN  /\ Len(windows') = (IF n = 0 \/ k = 0 THEN n + k ELSE n + k - 1)
              /\ \A i \in 1..n :
                   /\ windows'[i].geometry = windows[i].geometry
                   /\ (k = 0 \/ i # focused) => windows'[i] = windows[i]
              /\ (n > 0 /\ k > 0) =>
                   Len(windows'[focused].tabs) =
                     Len(windows[focused].tabs) + Len(doc[1].tabs)
              /\ \A j \in first..k :
                   /\ windows'[at(j)].geometry = doc[j].geometry
                   /\ Len(windows'[at(j)].tabs) = Len(doc[j].tabs)]_vars

\* C10 happens: a document with two windows was loaded while a window was
\* open.
C10_Witness ==
    /\ lastOp.op = "session_load"
    /\ lastOp.raised = "none"
    /\ lastOp.before > 0
    /\ Len(files[lastOp.path].windows) = 2

====
